---- MODULE Spec2Model ----
(***************************************************************************)
(* The Streamlit dashboard of src/app.py as a state machine.               *)
(*                                                                         *)
(* A Streamlit script is executed top to bottom on the first page load and *)
(* again, as a whole, on every widget change.  What survives between two   *)
(* executions is the st.cache_data store, the process-wide numpy random    *)
(* generator and the widget values; everything else is rebuilt.  Each      *)
(* action below is one complete execution of the script.                   *)
(*                                                                         *)
(* Numbers.  The script computes in binary floating point; the model       *)
(* computes the same expressions exactly: prices are integers (USD/kg),    *)
(* every auxiliary column is an integer in a fixed unit (given where it is *)
(* computed), ratios, die costs and margins are normalised fractions       *)
(* [n, d], and the fraction 0/0 plays NaN.  Gaussian noise is sigma * z    *)
(* with z an integer the generator yields in -2 .. 2.                      *)
(*                                                                         *)
(* load_forecast() (lines 29-34) reads a second file that no later line    *)
(* uses; it is left out.  A value bound as "\E x \in {e}" is e, computed   *)
(* once for the lines that follow.                                         *)
(***************************************************************************)
EXTENDS Integers, Sequences, FiniteSets, TLC

VARIABLES
    csv,            \* the rows of data/polysilicon_daily_synthetic_2016_2025.csv
    cache,          \* the st.cache_data entry of load_data()
    rng,            \* the state of numpy's global random generator
    lag,            \* sidebar slider "Supply Chain Lag (days)"
    shock,          \* sidebar slider "Polysilicon Price Shock (%)"
    node,           \* sidebar selectbox "Technology Node"
    outcome,        \* "init", "ok" or the exception that ended the last run
    df,             \* the data frame at the end of the last run
    ohlc,           \* tab 2: the monthly bars handed to go.Candlestick
    corr,           \* tab 3: the price/Copper entry of the correlation matrix
    lag_corr,       \* tab 4: the lagged correlation
    die_cost,       \* tab 6: the die cost series
    margin,         \* tab 6: the margin series
    die_cost_mean,  \* tab 6: die_cost.mean()
    margin_mean,    \* tab 6: margin.mean()
    col1_metric,    \* tab 6: "Avg Die Cost (USD)", in units of 1/10000
    col2_metric     \* tab 6: "Gross Margin (%)", in units of 1/100

vars == <<csv, cache, rng, lag, shock, node, outcome, df, ohlc, corr, lag_corr,
          die_cost, margin, die_cost_mean, margin_mean, col1_metric, col2_metric>>

(***************************************************************************)
(* Bounds of the model.                                                    *)
(***************************************************************************)
MaxLen == 3     \* rows in the csv file (the real file holds ten years of days)
MaxLag == 1     \* the slider's upper end (365 in the script)

(***************************************************************************)
(* Exact arithmetic.                                                       *)
(***************************************************************************)
Abs(x) == IF x < 0 THEN 0 - x ELSE x

RECURSIVE GCD(_, _)
GCD(a, b) == IF b = 0 THEN a ELSE GCD(b, a % b)

NaN == [n |-> 0, d |-> 0]
IsNaN(x) == x.d = 0

\* the fraction n/d in lowest terms with a positive denominator
Frac(n, d) ==
    IF d = 0 THEN NaN
    ELSE LET g == GCD(Abs(n), Abs(d))
             s == IF d < 0 THEN 0 - 1 ELSE 1
         IN  [n |-> s * (n \div g), d |-> s * (d \div g)]

FromInt(k) == [n |-> k, d |-> 1]

RMul(a, b) == IF IsNaN(a) \/ IsNaN(b) THEN NaN ELSE Frac(a.n * b.n, a.d * b.d)

\* x / 0 is kept as NaN (numpy yields inf or NaN; no divisor is 0 in the model)
RDiv(a, b) ==
    IF IsNaN(a) \/ IsNaN(b) \/ b.n = 0 THEN NaN
    ELSE RMul(a, Frac(b.d, b.n))

RAdd(a, b) ==
    IF IsNaN(a) \/ IsNaN(b) THEN NaN
    ELSE LET l == (a.d \div GCD(a.d, b.d)) * b.d
         IN  Frac(a.n * (l \div a.d) + b.n * (l \div b.d), l)

RSub(a, b) == RAdd(a, [n |-> 0 - b.n, d |-> b.d])

\* comparisons follow IEEE 754: every comparison with NaN is false
RLt(a, b) == ~IsNaN(a) /\ ~IsNaN(b) /\ a.n * b.d < b.n * a.d
RLeq(a, b) == ~IsNaN(a) /\ ~IsNaN(b) /\ a.n * b.d <= b.n * a.d
RGeq(a, b) == RLeq(b, a)
RGt(a, b) == RLt(b, a)

RECURSIVE RSum(_)
RSum(s) == IF s = <<>> THEN FromInt(0) ELSE RAdd(Head(s), RSum(Tail(s)))

\* the sequence f, its elements evaluated
AsSeq(f) == f \o <<>>

RECURSIVE Pow10(_)
Pow10(k) == IF k = 0 THEN 1 ELSE 10 * Pow10(k - 1)


\* Python's round(x, k) on a float: the nearest multiple of 10^-k, a tie going
\* to the even one; the result is returned in units of 10^-k
round(x, k) ==
    LET p == Pow10(k)
        q == x.n \div x.d
        t == (x.n - q * x.d) * p
        base == q * p + (t \div x.d)
        rem == t % x.d
    IN  IF 2 * rem > x.d THEN base + 1
        ELSE IF 2 * rem = x.d THEN base + (base % 2)
        ELSE base

(***************************************************************************)
(* The input file.  A date cell is the text of the csv ("str") until       *)
(* pd.to_datetime has turned it into a timestamp ("datetime").             *)
(***************************************************************************)
Str(y, m, d) == [kind |-> "str", y |-> y, m |-> m, d |-> d]

\* the rows a file is made of: two days of January 2020, one of them twice
\* with different prices, one of these zero, a day of March (so that no row
\* falls in February), and the date text "2020-13-45", which is no date
CsvRows ==
    {[date |-> Str(2020, 1, 5), price |-> 10],
     [date |-> Str(2020, 1, 20), price |-> 0],
     [date |-> Str(2020, 1, 20), price |-> 10],
     [date |-> Str(2020, 3, 10), price |-> 10],
     [date |-> Str(2020, 13, 45), price |-> 10]}

\* the files: up to MaxLen of these rows, in any order, no row twice
CsvFiles ==
    UNION {{f \in [1..n -> CsvRows] : \A i, j \in 1..n : i # j => f[i] # f[j]} : n \in 1..MaxLen}

(***************************************************************************)
(* Lines 25-37: load, parse the dates, sort.                               *)
(***************************************************************************)
\* pd.read_csv: the rows under a RangeIndex 0, 1, ...
read_csv(file) ==
    AsSeq([i \in 1..Len(file) |->
              [idx |-> i - 1, date |-> file[i].date, price |-> file[i].price]])

\* the frame load_data() hands to the script: the cached one once it exists
load_data(store, file) == IF store.filled THEN store.value ELSE read_csv(file)

\* @st.cache_data keeps a serialised copy and returns a fresh frame on every
\* call, so what the script does to the frame it got never reaches the entry:
\* `stored` is the frame as cached, `mutated` the returned frame after line 36
st_cache_data_ByReference(stored, mutated) == mutated
st_cache_data(stored, mutated) == stored

DaysIn(y, m) ==
    IF m \in {4, 6, 9, 11} THEN 30
    ELSE IF m = 2 THEN (IF y % 4 = 0 /\ (y % 100 # 0 \/ y % 400 = 0) THEN 29 ELSE 28)
    ELSE 31

Parsable(c) ==
    c.kind = "datetime" \/ (c.m \in 1..12 /\ c.d \in 1..DaysIn(c.y, c.m))

\* pd.to_datetime on one cell (errors="raise": the caller checks Parsable first)
to_datetime(c) == [c EXCEPT !.kind = "datetime"]

\* line 36: df["date"] = pd.to_datetime(df["date"]), which raises ValueError
\* at the first text that is no date
all_parsable(f) == \A i \in 1..Len(f) : Parsable(f[i].date)

parse_dates(f) == AsSeq([i \in 1..Len(f) |-> [f[i] EXCEPT !.date = to_datetime(f[i].date)]])

\* the order of two timestamps, and the calendar month a timestamp falls in
Ordinal(c) == c.y * 10000 + c.m * 100 + c.d
MonthOf(c) == c.y * 12 + (c.m - 1)

\* the rows of f at the positions `left`, in every ascending order of date:
\* an earliest row first, then the others likewise
RECURSIVE orderings(_, _)
orderings(f, left) ==
    IF left = {} THEN {<<>>}
    ELSE UNION {{<<f[i]>> \o g : g \in orderings(f, left \ {i})} :
                i \in {i \in left : \A j \in left : Ordinal(f[i].date) <= Ordinal(f[j].date)}}

\* df.sort_values("date"): kind defaults to "quicksort", which pandas documents
\* as not stable, so rows with equal dates may come out in any order
sort_values(f) == orderings(f, 1..Len(f))

(***************************************************************************)
(* Lines 42-56: the synthetic macro columns.                               *)
(***************************************************************************)
Seed == 42

\* np.random.seed(s): the generator's state becomes a function of s alone
np_random_seed_Skipped(state, s) == state
np_random_seed(state, s) == s

NextRng(s) == (75 * s + 74) % 65537

\* np.random.normal(0, sigma, n) as n standard draws z (the caller scales them)
RECURSIVE normal(_, _)
normal(state, n) ==
    IF n = 0 THEN [z |-> <<>>, rng |-> state]
    ELSE LET s1 == NextRng(state)
             rest == normal(s1, n - 1)
         IN  [z |-> <<(s1 % 5) - 2>> \o rest.z, rng |-> rest.rng]

\* units: DXY 1/100, Copper 1, Gold 1/10, Silver 1/100, VIX 1/10,
\* Industrial_Demand 1/100, GDP_Growth 1/100000
\* the six calls of lines 44-53 draw 6 * len(df) values one after the other:
\* z holds them in that order, call k (1 DXY, 2 Copper, 3 Gold, 4 Silver,
\* 5 VIX, 6 Industrial_Demand) owning z[(k - 1) * n + 1 .. k * n]
macro_row(r, z, n, i) ==
    LET p == r.price
        copper == 6000 + 120 * p + 80 * z[n + i]
        vix == 180 + 4 * p + 20 * z[4 * n + i]
        demand == 10000 + 3 * copper + 500 * z[5 * n + i]
    IN  [idx |-> r.idx, date |-> r.date, price |-> p,
         DXY |-> 10000 - 25 * p + 60 * z[i],
         Copper |-> copper,
         Gold |-> 14000 + 45 * p + 150 * z[2 * n + i],
         Silver |-> 1800 + 9 * p + 60 * z[3 * n + i],
         VIX |-> vix,
         Industrial_Demand |-> demand,
         GDP_Growth |-> 250000 + 2 * demand - 500 * vix]

macro_columns(f, draws) ==
    [frame |-> AsSeq([i \in 1..Len(f) |-> macro_row(f[i], draws.z, Len(f), i)]),
     rng |-> draws.rng]


(***************************************************************************)
(* Lines 63-68: the sidebar.                                               *)
(***************************************************************************)
Lags == 0..MaxLag               \* st.sidebar.slider(..., 0, 365, 180)
Shocks == {0 - 30, 0, 10, 50}   \* st.sidebar.slider(..., -30, 50, 10)
DefaultShock == 10

node_map == ("65 nm" :> 700) @@ ("28 nm" :> 900) @@ ("14 nm" :> 1200) @@ ("7 nm" :> 1600)

\* list(node_map.keys()): the options of the selectbox, the first one preselected
NodeOptions == DOMAIN node_map
DefaultNode == "65 nm"

\* d[k] on a Python dict: the value, or KeyError when k is not a key
dict_getitem_OrFirst(d, k) ==
    IF k \in DOMAIN d THEN [raised |-> FALSE, value |-> d[k]]
    ELSE [raised |-> FALSE, value |-> d["65 nm"]]
dict_getitem(d, k) ==
    IF k \in DOMAIN d THEN [raised |-> FALSE, value |-> d[k]]
    ELSE [raised |-> TRUE, value |-> 0]

(***************************************************************************)
(* Lines 92-109: the price/Copper ratio and its monthly bars.              *)
(***************************************************************************)
\* df["ratio"] = df["price_usd_per_kg"] / (df["Copper"] / 1000)
ratio_row(r) ==
    [idx |-> r.idx, date |-> r.date, price |-> r.price,
     DXY |-> r.DXY, Copper |-> r.Copper, Gold |-> r.Gold,
     Silver |-> r.Silver, VIX |-> r.VIX,
     Industrial_Demand |-> r.Industrial_Demand,
     GDP_Growth |-> r.GDP_Growth,
     ratio |-> RDiv(FromInt(r.price), Frac(r.Copper, 1000))]

with_ratio(f) == AsSeq([i \in 1..Len(f) |-> ratio_row(f[i])])

\* the aggregations "first", "max", "min", "last" of one bin; each is NaN on
\* a bin without rows
\* (rows is the bin's rows in frame order; the column aggregated is ratio)
Larger(a, b) == IF IsNaN(b) \/ RGt(a, b) THEN a ELSE b
Smaller(a, b) == IF IsNaN(b) \/ RLt(a, b) THEN a ELSE b

RECURSIVE agg_max(_)
agg_max(rows) ==
    IF rows = <<>> THEN NaN ELSE Larger(Head(rows).ratio, agg_max(Tail(rows)))

RECURSIVE agg_min(_)
agg_min(rows) ==
    IF rows = <<>> THEN NaN ELSE Smaller(Head(rows).ratio, agg_min(Tail(rows)))

agg_first(rows) == IF rows = <<>> THEN NaN ELSE rows[1].ratio
agg_last(rows) == IF rows = <<>> THEN NaN ELSE rows[Len(rows)].ratio

\* df.resample("M", on="date").agg(...): one row for every calendar month from
\* the month of the earliest date to the month of the latest, with or without
\* rows in it
resample_M(f) ==
    LET first == MonthOf(f[1].date)
        last == MonthOf(f[Len(f)].date)
        Bin(mth) ==
            LET InMonth(r) == MonthOf(r.date) = mth
            IN  SelectSeq(f, InMonth)
        Bar(mth, rows) ==
            [period |-> mth,
             open |-> agg_first(rows), high |-> agg_max(rows),
             low |-> agg_min(rows), close |-> agg_last(rows)]
    IN  AsSeq([k \in 1..(last - first + 1) |-> Bar(first + k - 1, Bin(first + k - 1))])

(***************************************************************************)
(* Lines 114-146: correlations.  Pearson's r = cov / sqrt(varx * vary) is  *)
(* kept as the exact integer triple (n-scaled sums), the square root being *)
(* irrational; the triple of zeros plays NaN.                              *)
(***************************************************************************)
NaNCorr == [cov |-> 0, varx |-> 0, vary |-> 0]

sums_add(x, y, t) == <<t[1] + x, t[2] + y, t[3] + x * y, t[4] + x * x, t[5] + y * y>>

\* r over a sequence of <<x, y>> pairs: NaN below two pairs or on a constant side
\* the sums of x, y, x*y, x*x and y*y over a sequence of <<x, y>> pairs
RECURSIVE sums(_)
sums(pairs) ==
    IF pairs = <<>> THEN <<0, 0, 0, 0, 0>>
    ELSE sums_add(Head(pairs)[1], Head(pairs)[2], sums(Tail(pairs)))

from_sums(n, t) ==
    IF n < 2 \/ n * t[4] - t[1] * t[1] = 0 \/ n * t[5] - t[2] * t[2] = 0 THEN NaNCorr
    ELSE [cov |-> n * t[3] - t[1] * t[2],
          varx |-> n * t[4] - t[1] * t[1],
          vary |-> n * t[5] - t[2] * t[2]]

pearson(pairs) == from_sums(Len(pairs), sums(pairs))

\* a column as a Series: the values under the frame's index labels; a value is
\* <<v>>, a missing one (NaN) is <<>>
column(f, c) == AsSeq([i \in 1..Len(f) |-> [idx |-> f[i].idx, v |-> <<f[i][c]>>]])

\* Series.shift(k), k >= 0: the value at position i moves to position i + k,
\* the labels stay, the first k positions become missing
shift_Backward(s, k) ==
    AsSeq([i \in 1..Len(s) |->
              [idx |-> s[i].idx, v |-> IF i + k <= Len(s) THEN s[i + k].v ELSE <<>>]])
shift(s, k) ==
    AsSeq([i \in 1..Len(s) |->
              [idx |-> s[i].idx, v |-> IF i - k >= 1 THEN s[i - k].v ELSE <<>>]])

unboxed(pairs) == AsSeq([i \in 1..Len(pairs) |-> <<pairs[i][1][1], pairs[i][2][1]>>])

\* Series.corr(other): join the two on their index labels, drop the pairs with
\* a missing side, Pearson's r over the rest
at_label(b, l) == b[CHOOSE j \in 1..Len(b) : b[j].idx = l].v

both_valid(p) == p[1] # <<>> /\ p[2] # <<>>

Series_corr(a, b) ==
    pearson(unboxed(SelectSeq(AsSeq([i \in 1..Len(a) |-> <<a[i].v, at_label(b, a[i].idx)>>]),
                              both_valid)))

\* df[corr_cols].corr(): the entry of the matrix for the columns a and b
DataFrame_corr(f, a, b) == pearson(AsSeq([i \in 1..Len(f) |-> <<f[i][a], f[i][b]>>]))

(***************************************************************************)
(* Lines 165-177: price shock -> die cost -> margin.                       *)
(***************************************************************************)
ASP == 12

\* shocked_price = price * (1 + shock / 100)
shocked_price_Ignored(p, s) == FromInt(p)
shocked_price(p, s) == RMul(FromInt(p), RAdd(FromInt(1), Frac(s, 100)))

\* wafer_cost = shocked_price * 0.60 / 0.68
wafer_cost_Inverted(sp) == RDiv(RMul(sp, Frac(68, 100)), Frac(60, 100))
wafer_cost(sp) == RDiv(RMul(sp, Frac(60, 100)), Frac(68, 100))

\* die_cost = wafer_cost / dies_per_wafer
die_cost_of(p, s, dies) == RDiv(wafer_cost(shocked_price(p, s)), FromInt(dies))

\* margin = (ASP - die_cost) / ASP * 100
margin_of(dc) == RMul(RDiv(RSub(FromInt(ASP), dc), FromInt(ASP)), FromInt(100))

die_cost_series(f, s, dies) == AsSeq([i \in 1..Len(f) |-> die_cost_of(f[i].price, s, dies)])

margin_series(dc) == AsSeq([i \in 1..Len(dc) |-> margin_of(dc[i])])

\* Series.mean()
mean_FirstOnly(s) == s[1]
mean(s) == RDiv(RSum(s), FromInt(Len(s)))


(***************************************************************************)
(* One execution of the script.                                            *)
(***************************************************************************)
\* nothing of tabs 1-6 is on the page
NoTabs ==
    /\ df' = <<>>
    /\ ohlc' = <<>>
    /\ corr' = <<>>
    /\ lag_corr' = <<>>
    /\ die_cost' = <<>>
    /\ margin' = <<>>
    /\ die_cost_mean' = <<>>
    /\ margin_mean' = <<>>
    /\ col1_metric' = <<>>
    /\ col2_metric' = <<>>

\* lines 85-177 on the frame f of line 56, with the widget values l and s and
\* the dies per wafer of the chosen node
Tabs(f, l, s, dies) ==
    \E frame \in {with_ratio(f)} :
    \E dc \in {die_cost_series(frame, s, dies)} :
    \E mg \in {margin_series(dc)} :
    \E dcm \in {mean(dc)} :
    \E mgm \in {mean(mg)} :
        /\ df' = frame
        /\ ohlc' = resample_M(frame)
        /\ corr' = <<DataFrame_corr(frame, "price", "Copper")>>
        /\ lag_corr' = <<Series_corr(column(frame, "price"), shift(column(frame, "Copper"), l))>>
        /\ die_cost' = dc
        /\ margin' = mg
        /\ die_cost_mean' = <<dcm>>
        /\ margin_mean' = <<mgm>>
        /\ col1_metric' = <<round(dcm, 4)>>
        /\ col2_metric' = <<round(mgm, 2)>>

\* the script from line 33 to its end, the widgets returning l, s and nd.  An
\* exception ends the run where it is raised: line 36 comes before the seeding
\* and before the widgets exist, line 68 after both
Script(l, s, nd) ==
    \E loaded \in {load_data(cache, csv)} :
    \E parsed \in {parse_dates(loaded)} :
        /\ csv' = csv
        /\ IF ~all_parsable(loaded)
           THEN /\ cache' = [filled |-> TRUE, value |-> loaded]
                /\ outcome' = "ValueError"
                /\ UNCHANGED <<rng, lag, shock, node>>
                /\ NoTabs
           ELSE /\ cache' = [filled |-> TRUE, value |-> st_cache_data(loaded, parsed)]
                /\ \E sorted \in sort_values(parsed) :
                   \E draws \in {normal(np_random_seed(rng, Seed), 6 * Len(sorted))} :
                   \E macro \in {macro_columns(sorted, draws)} :
                   \E dies \in {dict_getitem(node_map, nd)} :
                          /\ rng' = macro.rng
                          /\ lag' = l
                          /\ shock' = s
                          /\ node' = nd
                          /\ IF dies.raised
                             THEN outcome' = "KeyError" /\ NoTabs
                             ELSE outcome' = "ok" /\ Tabs(macro.frame, l, s, dies.value)

\* the widgets are on the page once a run has reached line 67
WidgetsShown == outcome \in {"ok", "KeyError"}

\* the first page load, or a rerun without a widget change
Rerun == Script(lag, shock, node)

ChangeLag == WidgetsShown /\ \E l \in Lags \ {lag} : Script(l, shock, node)

ChangeShock == WidgetsShown /\ \E s \in Shocks \ {shock} : Script(lag, s, node)

ChangeNode == WidgetsShown /\ \E nd \in NodeOptions \ {node} : Script(lag, shock, nd)

\* numpy seeds its generator from the operating system when it is imported
InitialRng == {1, 2}

\* the slider's preset (180 of 0..365) within the model's range
DefaultLag == MaxLag

InitWith(nd) ==
    /\ csv \in CsvFiles
    /\ cache = [filled |-> FALSE, value |-> <<>>]
    /\ rng \in InitialRng
    /\ lag = DefaultLag
    /\ shock = DefaultShock
    /\ node = nd
    /\ outcome = "init"
    /\ df = <<>>
    /\ ohlc = <<>>
    /\ corr = <<>>
    /\ lag_corr = <<>>
    /\ die_cost = <<>>
    /\ margin = <<>>
    /\ die_cost_mean = <<>>
    /\ margin_mean = <<>>
    /\ col1_metric = <<>>
    /\ col2_metric = <<>>

Init == InitWith(DefaultNode)

Next == Rerun \/ ChangeLag \/ ChangeShock \/ ChangeNode

Spec == Init /\ [][Next]_vars

(***************************************************************************)
(* Lines 66-68 and 165-177 on their own: the script run with a node label  *)
(* that a caller hands in.  The page's selectbox only offers the keys of   *)
(* node_map, so Spec never leaves them; here the label also ranges over    *)
(* texts that are no key.                                                  *)
(***************************************************************************)
RequestedLabels == NodeOptions \cup {"5 nm", "3 nm"}

RequestNode == WidgetsShown /\ \E nd \in RequestedLabels \ {node} : Script(lag, shock, nd)

InitNode == \E nd \in RequestedLabels : InitWith(nd)

NextNode == Rerun \/ RequestNode

SpecNode == InitNode /\ [][NextNode]_vars


(***************************************************************************)
(* Properties.                                                             *)
(***************************************************************************)
\* the page shows the six tabs of a complete run
Shown == outcome = "ok"

\* the rows of the frame that fall in calendar month mth
RowsOfMonth(f, mth) ==
    LET InMonth(r) == MonthOf(r.date) = mth
    IN  SelectSeq(f, InMonth)

\* C1: at every position the die cost is price * (1 + shock/100) * 0.60 / 0.68
\* / dies_per_wafer(node) and the margin is (12 - die cost) / 12 * 100; the two
\* aggregates are the arithmetic means of the two series (n * mean = sum); the
\* prices [10, 10] with shock 0 on "28 nm" give 0.009804 and 99.918.
C1_SimulateFormula ==
    Shown =>
        /\ Len(die_cost) = Len(df)
        /\ Len(margin) = Len(df)
        /\ \A i \in 1..Len(df) :
              /\ die_cost[i] = Frac(df[i].price * (100 + shock) * 60, 100 * 68 * node_map[node])
              /\ margin[i] = Frac(100 * (12 * die_cost[i].d - die_cost[i].n), 12 * die_cost[i].d)
        /\ RMul(FromInt(Len(df)), die_cost_mean[1]) = RSum(die_cost)
        /\ RMul(FromInt(Len(df)), margin_mean[1]) = RSum(margin)
        /\ (Len(df) = 2 /\ df[1].price = 10 /\ df[2].price = 10 /\ shock = 0 /\ node = "28 nm")
              => (round(die_cost_mean[1], 6) = 9804 /\ round(margin_mean[1], 3) = 99918)

\* a run over the two prices 10, 10 with shock 0 on node "28 nm"
C1_Witness ==
    Shown /\ Len(df) = 2 /\ df[1].price = 10 /\ df[2].price = 10 /\ shock = 0 /\ node = "28 nm"

\* C2: from one run to the next over the same prices and the same node, a
\* larger shock gives, at every position with a positive price, a strictly
\* larger die cost and a strictly smaller margin.
C2_ShockMonotone ==
    [][(Shown /\ Shown' /\ node' = node /\ shock' > shock /\ Len(df') = Len(df))
        => \A i \in 1..Len(df) :
              (df[i].price > 0 /\ df'[i].price = df[i].price)
                  => (RGt(die_cost'[i], die_cost[i]) /\ RLt(margin'[i], margin[i]))]_vars

\* the shock has been moved up to 50 over a series with a positive price
C2_Witness == Shown /\ shock = 50 /\ \E i \in 1..Len(df) : df[i].price > 0

\* C3: a run whose node label is no key of node_map ends in the lookup's
\* exception (Python's KeyError is the code's unknown-node error): tab 6 shows
\* no die cost and no margin, and no dies-per-wafer value stands in.
C3_UnknownNodeRaises ==
    (outcome \in {"ok", "KeyError"} /\ node \notin NodeOptions)
        => /\ outcome = "KeyError"
           /\ die_cost = <<>>
           /\ margin = <<>>
           /\ die_cost_mean = <<>>
           /\ margin_mean = <<>>
           /\ col1_metric = <<>>
           /\ col2_metric = <<>>

\* a run asked for the label "5 nm" has ended in the exception
C3_Witness == outcome = "KeyError" /\ node = "5 nm"

\* C4: a file with a non-positive price or an unparsable date makes the run
\* fail, and nothing is derived from it.
C4_MalformedRejected ==
    (outcome # "init"
       /\ \E i \in 1..Len(csv) : csv[i].price <= 0 \/ ~Parsable(csv[i].date))
        => /\ outcome # "ok"
           /\ df = <<>>
           /\ ohlc = <<>>
           /\ corr = <<>>
           /\ lag_corr = <<>>
           /\ die_cost = <<>>
           /\ margin = <<>>

\* C5: every bar has high >= open, high >= close, low <= open, low <= close,
\* open and close being the first and the last ratio of its month.
C5_OHLCInvariant ==
    \A k \in 1..Len(ohlc) :
        /\ RGeq(ohlc[k].high, ohlc[k].open)
        /\ RGeq(ohlc[k].high, ohlc[k].close)
        /\ RLeq(ohlc[k].low, ohlc[k].open)
        /\ RLeq(ohlc[k].low, ohlc[k].close)
        /\ ohlc[k].open = agg_first(RowsOfMonth(df, ohlc[k].period))
        /\ ohlc[k].close = agg_last(RowsOfMonth(df, ohlc[k].period))

\* C6: a calendar month without rows between the first and the last date ends
\* the run in an error, and no bar is ever emitted for a month without rows.
C6_EmptyMonthIsError ==
    /\ \A k \in 1..Len(ohlc) : RowsOfMonth(df, ohlc[k].period) # <<>>
    /\ (outcome # "init"
          /\ \E i, j \in 1..Len(csv) :
                /\ Parsable(csv[i].date)
                /\ Parsable(csv[j].date)
                /\ \E mth \in (MonthOf(csv[i].date) + 1)..(MonthOf(csv[j].date) - 1) :
                      \A r \in 1..Len(csv) : MonthOf(csv[r].date) # mth)
          => outcome # "ok"

\* C7: the seven auxiliary columns of a run are those that seed 42 and the
\* run's price series give, whatever the generator's state before the run.
C7_AuxDeterministic ==
    Shown =>
        \A i \in 1..Len(df) :
            LET r == macro_row(df[i], normal(Seed, 6 * Len(df)).z, Len(df), i)
            IN  /\ df[i].DXY = r.DXY
                /\ df[i].Copper = r.Copper
                /\ df[i].Gold = r.Gold
                /\ df[i].Silver = r.Silver
                /\ df[i].VIX = r.VIX
                /\ df[i].Industrial_Demand = r.Industrial_Demand
                /\ df[i].GDP_Growth = r.GDP_Growth

\* a run after the lag and the shock have been changed (so after earlier
\* runs), over two or more rows, with noise in its columns
C7_Witness ==
    /\ Shown
    /\ lag # DefaultLag
    /\ shock # DefaultShock
    /\ Len(df) >= 2
    /\ \E i \in 1..Len(df) : df[i].DXY # 10000 - 25 * df[i].price

\* C8: what the page shows is computed from the file's prices and the current
\* widget values, and the cached frame stays the frame that was read.
C8_RecomputedFromBase ==
    /\ outcome # "init" => cache = [filled |-> TRUE, value |-> read_csv(csv)]
    /\ Shown =>
          /\ Len(df) = Len(csv)
          /\ {<<df[i].idx, df[i].price>> : i \in 1..Len(df)}
                = {<<i - 1, csv[i].price>> : i \in 1..Len(csv)}
          /\ die_cost = die_cost_series(df, shock, node_map[node])
          /\ margin = margin_series(die_cost)
          /\ col1_metric = <<round(mean(die_cost), 4)>>
          /\ col2_metric = <<round(mean(margin), 2)>>
          /\ lag_corr = <<Series_corr(column(df, "price"), shift(column(df, "Copper"), lag))>>

\* a run after each of the three widgets has been changed
C8_Witness == Shown /\ lag # DefaultLag /\ shock # DefaultShock /\ node # DefaultNode

\* C9: the rows come out in ascending date order, rows with equal dates in
\* the order of the file.
C9_StableSort ==
    Shown =>
        \A i, j \in 1..Len(df) :
            i < j => /\ Ordinal(df[i].date) <= Ordinal(df[j].date)
                     /\ Ordinal(df[i].date) = Ordinal(df[j].date) => df[i].idx < df[j].idx

\* C10: the lagged correlation is Pearson's r over exactly the pairs
\* (price[i], Copper[i - lag]) for the positions lag < i <= n of the sorted
\* frame, and with lag 0 it is the price/Copper entry of the matrix.
C10_LagPairs ==
    Shown =>
        /\ lag_corr = <<pearson(AsSeq([k \in 1..(Len(df) - lag) |->
                                          <<df[k + lag].price, df[k].Copper>>]))>>
        /\ lag = 0 => lag_corr = corr

\* a run with lag 1 whose correlation is defined
C10_Witness == Shown /\ lag = 1 /\ lag_corr # <<NaNCorr>>

====
